---- MODULE Spec2Model ----
(***************************************************************************)
(* sphinxcontrib/yowasp_wavedrom.py: the waveform segmenter                *)
(* (split_waveform_if_needed), the significance filter                     *)
(* (is_meaningful_segment) and the two diagram emitters                    *)
(* (html_visit_wavedrom_diagram, latex_visit_wavedrom_diagram).            *)
(*                                                                         *)
(* Python values are modelled as follows.  A str is a sequence of          *)
(* one-character strings (a wave) or a TLA+ string (a name, a path).  A    *)
(* dict is a function whose DOMAIN is its key set.  Track dicts are        *)
(* objects with identity: they live in heap, a list holds their            *)
(* references (indices into heap), so that an assignment through one       *)
(* reference is seen through every alias of it.                            *)
(***************************************************************************)
EXTENDS Integers, Sequences, FiniteSets, TLC

VARIABLES
    heap,            \* the track dicts allocated so far, by reference
    src,             \* wavedrom_src: the description handed to the segmenter
    max_length,      \* the max_length argument of split_waveform_if_needed
    segments,        \* the list split_waveform_if_needed returned
    pc,              \* position of the running function
    idx,             \* loop index (enumerate(segments))
    verdict,         \* the last value is_meaningful_segment returned
    doc,             \* the wavedrom_diagram nodes of the document, in order
    surface,         \* "html" or "latex": the translator that is visiting
    node,            \* index in doc of the node being visited (0: none yet)
    body,            \* self.body of the translator
    segment_images,  \* the local list of html_visit_wavedrom_diagram
    log,             \* what sphinx.application.logger.error received
    rendered,        \* calls of yowasp_wavedrom.render that returned: [node, idx]
    writes,          \* files written by write_text and svg2png: [path, node, idx]
    raised           \* exceptions raised inside render, write, adjust_svg, svg2png: [step, node, idx]

segVars == <<heap, src, max_length, segments, pc, idx, verdict>>
emitVars == <<doc, surface, node, body, segment_images, log, rendered, writes, raised>>
vars == <<heap, src, max_length, segments, pc, idx, verdict,
          doc, surface, node, body, segment_images, log, rendered, writes, raised>>

(***************************************************************************)
(* Bounds of the model.                                                    *)
(***************************************************************************)
MaxTracks == 2      \* tracks of a description
MaxTokens == 4      \* wave tokens of a description, all tracks together
MaxSegLen == 2      \* largest max_length the segmenter is called with
MaxBlocks == 3      \* MAX_WAVE_LENGTH-token blocks of a description the emitters visit

\* Program constants.
MAX_WAVE_LENGTH == 22    \* max_length of the LaTeX emitter
HTML_WAVE_LENGTH == 50   \* max_length of the HTML emitter

Tokens == {".", "0", "1"}
None == "None"

(***************************************************************************)
(* Python built-ins.                                                       *)
(***************************************************************************)
EmptyDict == << >>

\* d.get(k, default)
Get(d, k, default) == IF k \in DOMAIN d THEN d[k] ELSE default

\* { **d, k: v }
DictSet(d, k, v) == [x \in (DOMAIN d) \cup {k} |-> IF x = k THEN v ELSE d[x]]

Min(a, b) == IF a <= b THEN a ELSE b

\* max(S, default=0)
MaxOf(S) == IF S = {} THEN 0 ELSE CHOOSE m \in S : \A x \in S : x <= m

\* w[a:b] for 0 <= a <= b
Slice(w, a, b) ==
    LET lo == Min(a, Len(w))
        hi == Min(b, Len(w))
    IN  [j \in 1..(hi - lo) |-> w[lo + j]]

\* w.ljust(n, c)
ljust(w, n, c) == IF Len(w) >= n THEN w ELSE w \o [j \in 1..(n - Len(w)) |-> c]

\* next((ch for ch in w if ch != '.'), None)
FirstState(w) ==
    IF \A j \in 1..Len(w) : w[j] = "." THEN None
    ELSE w[CHOOSE j \in 1..Len(w) : w[j] # "." /\ \A k \in 1..(j - 1) : w[k] = "."]

\* next((ch for ch in reversed(w) if ch != '.'), None)
MutLastState(w) == FirstState(w)
LastState(w) ==
    IF \A j \in 1..Len(w) : w[j] = "." THEN None
    ELSE w[CHOOSE j \in 1..Len(w) : w[j] # "." /\ \A k \in (j + 1)..Len(w) : w[k] = "."]

\* sig.get("wave", "") of the track dict behind a reference
WaveOf(h, ref) == Get(h[ref], "wave", << >>)

(***************************************************************************)
(* split_waveform_if_needed                                                *)
(***************************************************************************)
\* max((len(sig.get("wave", "")) for sig in signals), default=0)
MaxWaveLength(h, signals) == MaxOf({Len(WaveOf(h, signals[s])) : s \in 1..Len(signals)})

\* if max_wave_length <= max_length: return [wavedrom_src]
MutFitsOneSegment(max_wave_length, max_len) == max_wave_length < max_len
FitsOneSegment(max_wave_length, max_len) == max_wave_length <= max_len

\* num_segments = (max_wave_length + max_length - 1) // max_length
MutNumSegments(max_wave_length, max_len) == max_wave_length \div max_len
NumSegments(max_wave_length, max_len) == (max_wave_length + max_len - 1) \div max_len

\* segment["signal"].append({ **sig, "wave": wave_segment }): a new dict
MutAppendTrack(st, sig, wave_segment) ==
    [heap   |-> [st.heap EXCEPT ![sig] = DictSet(@, "wave", wave_segment)],
     signal |-> Append(st.signal, sig)]
AppendTrack(st, sig, wave_segment) ==
    [heap   |-> Append(st.heap, DictSet(st.heap[sig], "wave", wave_segment)),
     signal |-> Append(st.signal, Len(st.heap) + 1)]

\* for sig in signals: (the body of the loop over the tracks of segment i)
RECURSIVE BuildSignal(_, _, _, _, _)
BuildSignal(st, signals, i, max_len, s) ==
    IF s > Len(signals) THEN st
    ELSE LET sig == signals[s]
             wave == WaveOf(st.heap, sig)
             wave_segment == ljust(Slice(wave, i * max_len, (i + 1) * max_len), max_len, ".")
         IN  BuildSignal(AppendTrack(st, sig, wave_segment), signals, i, max_len, s + 1)

\* "config": wavedrom_src.get("config", {}).copy()
ConfigCopy(wavedrom_src) == Get(wavedrom_src, "config", EmptyDict)

\* for i in range(num_segments):
RECURSIVE BuildSegments(_, _, _, _, _, _, _)
BuildSegments(h, segs, wavedrom_src, signals, max_len, i, num_segments) ==
    IF i >= num_segments THEN [heap |-> h, segments |-> segs]
    ELSE LET b == BuildSignal([heap |-> h, signal |-> << >>], signals, i, max_len, 1)
             segment == [signal |-> b.signal, config |-> ConfigCopy(wavedrom_src)]
         IN  BuildSegments(b.heap, Append(segs, segment), wavedrom_src, signals,
                           max_len, i + 1, num_segments)

\* prev_wave = segments[seg_idx - 1]["signal"][s_idx].get("wave", ""): read when
\* the loop reaches seg_idx, so after segment seg_idx - 1 was itself rewritten
MutPrevWave(h, built, segs, seg_idx, s_idx) == WaveOf(built, segs[seg_idx].signal[s_idx])
PrevWave(h, built, segs, seg_idx, s_idx) == WaveOf(h, segs[seg_idx].signal[s_idx])

\* for s_idx, sig in enumerate(segments[seg_idx]["signal"]):
\* (seg_idx is the Python index; segs[seg_idx + 1] is segments[seg_idx])
RECURSIVE FixSignals(_, _, _, _, _)
FixSignals(h, built, segs, seg_idx, s_idx) ==
    IF s_idx > Len(segs[seg_idx + 1].signal) THEN h
    ELSE LET sig == segs[seg_idx + 1].signal[s_idx]
             current_wave == WaveOf(h, sig)
             prev_wave == PrevWave(h, built, segs, seg_idx, s_idx)
             last_state == LastState(prev_wave)
             h2 == IF current_wave # << >> /\ current_wave[1] = "." /\ last_state # None
                   THEN [h EXCEPT ![sig] = DictSet(@, "wave", <<last_state>> \o Tail(current_wave))]
                   ELSE h
         IN  FixSignals(h2, built, segs, seg_idx, s_idx + 1)

\* for seg_idx in range(1, len(segments)):
RECURSIVE FixSegments(_, _, _, _)
FixSegments(h, built, segs, seg_idx) ==
    IF seg_idx >= Len(segs) THEN h
    ELSE FixSegments(FixSignals(h, built, segs, seg_idx, 1), built, segs, seg_idx + 1)

\* The call: the heap it leaves and the list it returns.
split_waveform_if_needed(h, wavedrom_src, max_len) ==
    LET signals == Get(wavedrom_src, "signal", << >>)
        max_wave_length == MaxWaveLength(h, signals)
    IN  IF FitsOneSegment(max_wave_length, max_len)
        THEN [heap |-> h, ret |-> <<wavedrom_src>>]
        ELSE LET num_segments == NumSegments(max_wave_length, max_len)
                 b == BuildSegments(h, << >>, wavedrom_src, signals, max_len, 0, num_segments)
             IN  [heap |-> FixSegments(b.heap, b.heap, b.segments, 1), ret |-> b.segments]

(***************************************************************************)
(* is_meaningful_segment                                                   *)
(***************************************************************************)
\* set(wave) - {"."}
States(wave) == {wave[j] : j \in 1..Len(wave)} \ {"."}

\* The loop over zip(segment["signal"], previous_segment["signal"]) from pair s on.
RECURSIVE MeaningfulFrom(_, _, _, _)
MeaningfulFrom(h, sigs, prev_sigs, s) ==
    IF s > Min(Len(sigs), Len(prev_sigs)) THEN FALSE
    ELSE LET wave == WaveOf(h, sigs[s])
             prev_wave == WaveOf(h, prev_sigs[s])
             first == FirstState(wave)
             last_prev == LastState(prev_wave)
         IN  IF wave = << >> \/ States(wave) = {}
             THEN MeaningfulFrom(h, sigs, prev_sigs, s + 1)
             ELSE IF Cardinality(States(wave)) > 1
             THEN TRUE
             ELSE IF first # None /\ last_prev # None /\ first # last_prev
             THEN TRUE
             ELSE MeaningfulFrom(h, sigs, prev_sigs, s + 1)

is_meaningful_segment(h, segment, previous_segment) ==
    MeaningfulFrom(h, segment["signal"], previous_segment["signal"], 1)

(***************************************************************************)
(* The descriptions the model is run on.                                   *)
(***************************************************************************)
WavesOfLen(l) == [1..l -> Tokens]

\* Track dicts whose wave has l tokens, each with a further field; with no token,
\* also a track with no "wave" key.
TracksOfLen(l) ==
    {[name |-> "clk", wave |-> w] : w \in WavesOfLen(l)}
      \cup (IF l = 0 THEN {[name |-> "clk"]} ELSE {})

\* Lists of at most n track dicts of total size at most budget, T[l] being the
\* track dicts of size l.
RECURSIVE SignalLists(_, _, _)
SignalLists(T, n, budget) ==
    {<< >>} \cup
    (IF n = 0 THEN {}
     ELSE UNION {{<<t>> \o rest : t \in T[l], rest \in SignalLists(T, n - 1, budget - l)}
                   : l \in 0..budget})

Refs(n) == [s \in 1..n |-> s]

\* The descriptions over a list of n tracks: with and without "config"; with no
\* track, also without "signal".
Descriptions(n) ==
    {[signal |-> Refs(n)], [signal |-> Refs(n), config |-> [hscale |-> 2]]}
      \cup (IF n = 0 THEN {EmptyDict} ELSE {})

EmitIdle ==
    /\ doc = << >>
    /\ surface = "none"
    /\ node = 0
    /\ body = << >>
    /\ segment_images = << >>
    /\ log = << >>
    /\ rendered = {}
    /\ writes = {}
    /\ raised = {}

(***************************************************************************)
(* The segmenter and the filter as called functions.                       *)
(***************************************************************************)
Init ==
    /\ heap \in SignalLists([l \in 0..MaxTokens |-> TracksOfLen(l)], MaxTracks, MaxTokens)
    /\ src \in Descriptions(Len(heap))
    /\ max_length \in 1..MaxSegLen
    /\ segments = << >>
    /\ pc = "call"
    /\ idx = 0
    /\ verdict = FALSE
    /\ EmitIdle

\* segments = split_waveform_if_needed(wavedrom_src, max_length)
Split ==
    /\ pc = "call"
    /\ LET r == split_waveform_if_needed(heap, src, max_length)
       IN  /\ heap' = r.heap
           /\ segments' = r.ret
    /\ pc' = "split"
    /\ UNCHANGED <<src, max_length, idx, verdict>>
    /\ UNCHANGED emitVars

\* is_meaningful_segment(segments[i], segments[i - 1]) for some i >= 1
Filter ==
    /\ pc = "split"
    /\ \E i \in 1..(Len(segments) - 1) :
         /\ idx' = i
         /\ verdict' = is_meaningful_segment(heap, segments[i + 1], segments[i])
    /\ pc' = "filtered"
    /\ UNCHANGED <<heap, src, max_length, segments>>
    /\ UNCHANGED emitVars

Next == Split \/ Filter

Spec == Init /\ [][Next]_vars

(***************************************************************************)
(* html_visit_wavedrom_diagram and latex_visit_wavedrom_diagram, one step   *)
(* per call of a collaborator.  pc = "ready": the translator is between two *)
(* nodes (nodes.SkipNode was raised, or no node was visited yet).           *)
(***************************************************************************)
\* part_name = f"{basename}_part{idx+1}" if len(segments) > 1 else basename
PartName(basename, i, n) ==
    IF n > 1 THEN basename \o "_part" \o ToString(i + 1) ELSE basename

svg_filepath == PartName(doc[node].name, idx, Len(segments)) \o ".svg"
png_filepath == PartName(doc[node].name, idx, Len(segments)) \o ".png"

\* What no step after the call of the segmenter assigns.
Steady == UNCHANGED <<heap, src, max_length, segments, verdict, doc, surface, node>>

\* basename = node["name"]; wavedrom_src = node["src"];
\* segments = split_waveform_if_needed(wavedrom_src, max_len)
Visit(sfc, max_len) ==
    /\ pc = "ready"
    /\ surface = sfc
    /\ node < Len(doc)
    /\ node' = node + 1
    /\ src' = doc[node + 1].src
    /\ max_length' = max_len
    /\ LET r == split_waveform_if_needed(heap, doc[node + 1].src, max_len)
       IN  /\ heap' = r.heap
           /\ segments' = r.ret
    /\ segment_images' = << >>
    /\ idx' = 0
    /\ pc' = "loop"
    /\ UNCHANGED <<verdict, doc, surface, body, log, rendered, writes, raised>>

\* raise nodes.SkipNode at the end of the except clause: the visit is over
MutOnError(i) == [pc |-> "loop", idx |-> i + 1]
OnError(i) == [pc |-> "ready", idx |-> i]

\* except Exception as error: logger.error(f"WaveDrom error: {error}");
\* self.body.append(<the error marker>); raise nodes.SkipNode
Except(step) ==
    /\ raised' = raised \cup {[step |-> step, node |-> node, idx |-> idx]}
    /\ log' = Append(log, [msg |-> "WaveDrom error", node |-> node, idx |-> idx])
    /\ body' = Append(body, [kind |-> "error", node |-> node, idx |-> idx])
    /\ pc' = OnError(idx).pc
    /\ idx' = OnError(idx).idx

\* segment_svg = yowasp_wavedrom.render(segment)
Render(sfc) ==
    /\ pc = "render"
    /\ surface = sfc
    /\ Steady
    /\ \/ /\ rendered' = rendered \cup {[node |-> node, idx |-> idx]}
          /\ pc' = "write"
          /\ UNCHANGED <<idx, body, log, raised, writes, segment_images>>
       \/ /\ Except("render")
          /\ UNCHANGED <<rendered, writes, segment_images>>

\* svg_filepath.parent.mkdir(parents=True, exist_ok=True); svg_filepath.write_text(segment_svg)
WriteSvg(sfc) ==
    /\ pc = "write"
    /\ surface = sfc
    /\ Steady
    /\ \/ /\ writes' = writes \cup {[path |-> svg_filepath, node |-> node, idx |-> idx]}
          /\ pc' = "adjust"
          /\ UNCHANGED <<idx, body, log, raised, rendered, segment_images>>
       \/ /\ Except("write")
          /\ UNCHANGED <<rendered, writes, segment_images>>

\* adjust_svg wraps its whole body in try: ... except Exception as e: logger.error(...)
MutAdjustCatches == FALSE
AdjustCatches == TRUE

\* adjust_svg(svg_filepath): rewrites the file in place, or fails inside
AdjustSvg(sfc) ==
    /\ pc = "adjust"
    /\ surface = sfc
    /\ Steady
    /\ \/ /\ pc' = "convert"
          /\ UNCHANGED <<idx, body, log, raised, rendered, writes, segment_images>>
       \/ /\ IF AdjustCatches
             THEN /\ raised' = raised \cup {[step |-> "adjust", node |-> node, idx |-> idx]}
                  /\ log' = Append(log, [msg |-> "Error adjusting SVG", node |-> node, idx |-> idx])
                  /\ pc' = "convert"
                  /\ UNCHANGED <<idx, body>>
             ELSE Except("adjust")
          /\ UNCHANGED <<rendered, writes, segment_images>>

\* cairosvg.svg2png(url=str(svg_filepath), write_to=str(png_filepath), dpi=300)
Convert(sfc) ==
    /\ pc = "convert"
    /\ surface = sfc
    /\ Steady
    /\ \/ /\ writes' = writes \cup {[path |-> png_filepath, node |-> node, idx |-> idx]}
          /\ pc' = "emit"
          /\ UNCHANGED <<idx, body, log, raised, rendered, segment_images>>
       \/ /\ Except("convert")
          /\ UNCHANGED <<rendered, writes, segment_images>>

\* for idx, segment in enumerate(segments): ... and, after the loop,
\* self.body.append("".join(segment_images)); raise nodes.SkipNode
HtmlLoop ==
    /\ pc = "loop"
    /\ surface = "html"
    /\ Steady
    /\ IF idx < Len(segments)
       THEN /\ pc' = "render"
            /\ UNCHANGED body
       ELSE /\ body' = Append(body, [kind |-> "inline", node |-> node, imgs |-> segment_images])
            /\ pc' = "ready"
    /\ UNCHANGED <<idx, log, raised, rendered, writes, segment_images>>

\* segment_images.append(f'<img src="{relative_png_path}" ...>')
HtmlEmit ==
    /\ pc = "emit"
    /\ surface = "html"
    /\ Steady
    /\ segment_images' = Append(segment_images, [png |-> png_filepath, idx |-> idx])
    /\ idx' = idx + 1
    /\ pc' = "loop"
    /\ UNCHANGED <<body, log, raised, rendered, writes>>

\* if idx > 0 and not is_meaningful_segment(segment, segments[idx - 1]): continue
MutLatexSkips(h, segs, i) == i > 0 /\ ~is_meaningful_segment(h, segs[i + 1], segs[1])
LatexSkips(h, segs, i) == i > 0 /\ ~is_meaningful_segment(h, segs[i + 1], segs[i])

\* for idx, segment in enumerate(segments): ... and, after the loop, raise nodes.SkipNode
LatexLoop ==
    /\ pc = "loop"
    /\ surface = "latex"
    /\ Steady
    /\ IF idx < Len(segments)
       THEN IF LatexSkips(heap, segments, idx)
            THEN /\ idx' = idx + 1
                 /\ pc' = "loop"
            ELSE /\ pc' = "render"
                 /\ UNCHANGED idx
       ELSE /\ pc' = "ready"
            /\ UNCHANGED idx
    /\ UNCHANGED <<body, log, raised, rendered, writes, segment_images>>

\* self.body.append(f"\\begin{{figure}}[H]...{{{relative_png_path}}}\\end{{figure}}")
LatexEmit ==
    /\ pc = "emit"
    /\ surface = "latex"
    /\ Steady
    /\ body' = Append(body, [kind |-> "figure", node |-> node, idx |-> idx, png |-> png_filepath])
    /\ idx' = idx + 1
    /\ pc' = "loop"
    /\ UNCHANGED <<log, raised, rendered, writes, segment_images>>

html_visit_wavedrom_diagram ==
    \/ Visit("html", HTML_WAVE_LENGTH)
    \/ HtmlLoop
    \/ Render("html")
    \/ WriteSvg("html")
    \/ AdjustSvg("html")
    \/ Convert("html")
    \/ HtmlEmit

latex_visit_wavedrom_diagram ==
    \/ Visit("latex", MAX_WAVE_LENGTH)
    \/ LatexLoop
    \/ Render("latex")
    \/ WriteSvg("latex")
    \/ AdjustSvg("latex")
    \/ Convert("latex")
    \/ LatexEmit

EmitNext == html_visit_wavedrom_diagram \/ latex_visit_wavedrom_diagram

(***************************************************************************)
(* The documents the emitters are run on.  A wave is a run of blocks of     *)
(* MAX_WAVE_LENGTH tokens, so that a block is a segment of the LaTeX        *)
(* emitter; a block is '.' tokens after a head.                             *)
(***************************************************************************)
BlockHeads == {<< >>, <<"0">>, <<"1">>, <<"0", "1">>}

RECURSIVE BlockWaves(_)
BlockWaves(k) ==
    IF k = 0 THEN {<< >>}
    ELSE {ljust(h, MAX_WAVE_LENGTH, ".") \o w : h \in BlockHeads, w \in BlockWaves(k - 1)}

BlockTracks(k) == {[name |-> "clk", wave |-> w] : w \in BlockWaves(k)}

\* Tracks whose wave is k blocks with head "0": a constant signal.
RECURSIVE FlatWave(_)
FlatWave(k) == IF k = 0 THEN << >> ELSE ljust(<<"0">>, MAX_WAVE_LENGTH, ".") \o FlatWave(k - 1)

Names == {"a", "b", "a_part1"}

Idle ==
    /\ src = EmptyDict
    /\ max_length = 0
    /\ segments = << >>
    /\ pc = "ready"
    /\ idx = 0
    /\ verdict = FALSE
    /\ node = 0
    /\ body = << >>
    /\ segment_images = << >>
    /\ log = << >>
    /\ rendered = {}
    /\ writes = {}
    /\ raised = {}

\* A document with one diagram.
OneDiagram ==
    /\ heap \in SignalLists([k \in 0..MaxBlocks |-> BlockTracks(k)], MaxTracks, MaxBlocks)
    /\ doc \in {<<[name |-> "a", src |-> d]>> : d \in Descriptions(Len(heap))}

\* A document with two diagrams of different names, each a single constant track.
TwoDiagrams ==
    /\ \E k1, k2 \in 0..MaxBlocks :
         /\ k1 + k2 <= MaxBlocks
         /\ heap = <<[name |-> "clk", wave |-> FlatWave(k1)], [name |-> "clk", wave |-> FlatWave(k2)]>>
    /\ \E n1, n2 \in Names :
         /\ n1 # n2
         /\ doc = <<[name |-> n1, src |-> [signal |-> <<1>>]], [name |-> n2, src |-> [signal |-> <<2>>]]>>

EmitInit ==
    /\ surface \in {"html", "latex"}
    /\ OneDiagram \/ TwoDiagrams
    /\ Idle

EmitSpec == EmitInit /\ [][EmitNext]_vars

(***************************************************************************)
(* Vocabulary of the properties, stated without the operators above.       *)
(***************************************************************************)
\* The tracks of the source description and their waves.  The source tracks are
\* the first objects of heap (NoMutation: they are never assigned).
SrcSignals == IF "signal" \in DOMAIN src THEN src["signal"] ELSE << >>
SrcWave(s) == IF "wave" \in DOMAIN heap[SrcSignals[s]] THEN heap[SrcSignals[s]]["wave"] ELSE << >>

\* total_length: the maximum wave length over all tracks, 0 with no tracks
TotalLength ==
    IF SrcSignals = << >> THEN 0
    ELSE CHOOSE m \in {Len(SrcWave(s)) : s \in 1..Len(SrcSignals)} :
             \A s \in 1..Len(SrcSignals) : Len(SrcWave(s)) <= m

\* The token of track s at source position p (from 0); '.' past the end of the wave.
SrcToken(s, p) == IF p < Len(SrcWave(s)) THEN SrcWave(s)[p + 1] ELSE "."

\* The wave of track s in the returned segment i (from 0).
SegWave(i, s) == heap[segments[i + 1]["signal"][s]]["wave"]

HasState(w) == \E j \in 1..Len(w) : w[j] # "."
IsLastState(w, j) == j \in 1..Len(w) /\ w[j] # "." /\ \A k \in (j + 1)..Len(w) : w[k] = "."
IsFirstState(w, j) == j \in 1..Len(w) /\ w[j] # "." /\ \A k \in 1..(j - 1) : w[k] = "."

Returned == pc # "call"
WasSplit == Returned /\ TotalLength > max_length

\* C1: a description longer than max_length is returned as exactly
\* ceil(total_length / max_length) segments, each with every track of the source,
\* and every track's wave in every segment has exactly max_length tokens.
SegmentShape ==
    WasSplit =>
        /\ (Len(segments) - 1) * max_length < TotalLength
        /\ TotalLength <= Len(segments) * max_length
        /\ \A i \in 0..(Len(segments) - 1) :
             /\ Len(segments[i + 1]["signal"]) = Len(SrcSignals)
             /\ \A s \in 1..Len(SrcSignals) :
                  /\ "wave" \in DOMAIN heap[segments[i + 1]["signal"][s]]
                  /\ Len(SegWave(i, s)) = max_length

\* A split whose last segment is padded and that has a track shorter than the longest.
SegmentShapeWitness ==
    /\ pc = "split"
    /\ TotalLength > max_length
    /\ TotalLength % max_length # 0
    /\ \E s \in 1..Len(SrcSignals) : Len(SrcWave(s)) < TotalLength /\ Len(SrcWave(s)) > 0

\* C2: continuity rule.  For every segment i >= 1 and track s whose slice begins
\* with '.': if the returned wave of s in segment i-1 has a non-'.' token, the
\* first token of segment i is the last such token and the tokens after it are
\* those of the padded slice; if it has none, the wave is the padded slice.
ContinuityRule ==
    WasSplit =>
        \A i \in 1..(Len(segments) - 1) : \A s \in 1..Len(SrcSignals) :
            SrcToken(s, i * max_length) = "." =>
                /\ \A q \in 1..(max_length - 1) :
                       SegWave(i, s)[q + 1] = SrcToken(s, i * max_length + q)
                /\ HasState(SegWave(i - 1, s)) =>
                       \E j \in 1..max_length :
                           /\ IsLastState(SegWave(i - 1, s), j)
                           /\ SegWave(i, s)[1] = SegWave(i - 1, s)[j]
                /\ ~HasState(SegWave(i - 1, s)) => SegWave(i, s)[1] = "."

\* A leading '.' resolved to the last of two states of the previous segment, with a
\* state later in the same segment left in place.
ContinuityRuleWitness ==
    /\ pc = "split"
    /\ TotalLength > max_length
    /\ \E i \in 1..(Len(segments) - 1) : \E s \in 1..Len(SrcSignals) :
         /\ SrcToken(s, i * max_length) = "."
         /\ SegWave(i, s)[1] = "0"
         /\ SegWave(i - 1, s)[1] = "1"
         /\ \E q \in 1..(max_length - 1) : SegWave(i, s)[q + 1] = "1"

\* C10: continuity cascades.  The first token of track s in segment i >= 1 is the
\* state s holds at source position i * max_length: the last non-'.' token of the
\* source wave at positions 0..i*max_length, and '.' only when there is none.
ContinuityCascades ==
    WasSplit =>
        \A i \in 1..(Len(segments) - 1) : \A s \in 1..Len(SrcSignals) :
            LET P == {p \in 0..(i * max_length) : SrcToken(s, p) # "."}
            IN  IF P = {} THEN SegWave(i, s)[1] = "."
                ELSE \E p \in P : /\ \A q \in P : q <= p
                                  /\ SegWave(i, s)[1] = SrcToken(s, p)

\* A state carried over a segment of the source that holds only '.' tokens.
ContinuityCascadesWitness ==
    /\ pc = "split"
    /\ TotalLength > max_length
    /\ \E i \in 2..(Len(segments) - 1) : \E s \in 1..Len(SrcSignals) :
         /\ \A q \in 0..max_length : SrcToken(s, (i - 1) * max_length + q) = "."
         /\ SegWave(i, s)[1] # "."

\* C4: a description no longer than max_length (also one with no track) is
\* returned as the one-element list of the description itself, no track dict is
\* created or assigned, and segmenting the result again returns the same.
SingleSegmentIdentity ==
    [][(pc = "call" /\ TotalLength <= max_length) =>
          /\ segments' = <<src>>
          /\ heap' = heap
          /\ split_waveform_if_needed(heap', segments'[1], max_length).ret = <<src>>
          /\ split_waveform_if_needed(heap', segments'[1], max_length).heap = heap]_vars

\* A description exactly max_length long with a shorter track and a track with no wave.
SingleSegmentIdentityWitness ==
    /\ pc = "split"
    /\ TotalLength = max_length
    /\ segments = <<src>>
    /\ \E s \in 1..Len(SrcSignals) : "wave" \notin DOMAIN heap[SrcSignals[s]]
    /\ \E s \in 1..Len(SrcSignals) : SrcWave(s) # << >> /\ SrcWave(s)[1] = "."

SingleSegmentIdentityNoTracks ==
    pc = "split" /\ SrcSignals = << >> /\ segments = <<src>>

\* C8: neither function assigns to an object of its input: every track dict that
\* existed before a call is the same after it, as is the description; and in the
\* segments produced each track has the keys and the non-wave values of its
\* source track, and each segment holds the source's config (an empty mapping
\* when the source has none).
CarriedFields ==
    WasSplit =>
        \A i \in 0..(Len(segments) - 1) :
            /\ segments[i + 1]["config"] = (IF "config" \in DOMAIN src THEN src["config"] ELSE << >>)
            /\ \A s \in 1..Len(SrcSignals) :
                 LET t == heap[segments[i + 1]["signal"][s]]
                     o == heap[SrcSignals[s]]
                 IN  /\ DOMAIN t = (DOMAIN o) \cup {"wave"}
                     /\ \A k \in (DOMAIN o) \ {"wave"} : t[k] = o[k]

NoMutation ==
    [][/\ src' = src
       /\ Len(heap') >= Len(heap)
       /\ \A r \in 1..Len(heap) : heap'[r] = heap[r]
       /\ CarriedFields']_vars

\* A split that rewrote a leading '.' in a segment, of a description with a config
\* and a named track.
NoMutationWitness ==
    /\ pc = "filtered"
    /\ TotalLength > max_length
    /\ "config" \in DOMAIN src
    /\ \E i \in 1..(Len(segments) - 1) : \E s \in 1..Len(SrcSignals) :
         /\ SrcToken(s, i * max_length) = "."
         /\ SegWave(i, s)[1] # "."
         /\ "name" \in DOMAIN heap[SrcSignals[s]]

\* C3: is_meaningful_segment returns true exactly when some paired track has a wave
\* with a non-'.' token and either two distinct non-'.' tokens or a first non-'.'
\* token that is not the last non-'.' token of the previous wave (a previous wave
\* with no such token has none equal to it).
SignificantTrack(w, prev) ==
    /\ HasState(w)
    /\ \/ \E j, k \in 1..Len(w) : w[j] # "." /\ w[k] # "." /\ w[j] # w[k]
       \/ \E j \in 1..Len(w) :
             /\ IsFirstState(w, j)
             /\ ~\E k \in 1..Len(prev) : IsLastState(prev, k) /\ prev[k] = w[j]

FilterExact ==
    pc = "filtered" =>
        (verdict <=> \E s \in 1..Len(SrcSignals) :
                         SignificantTrack(SegWave(idx, s), SegWave(idx - 1, s)))

\* What the code computes: case (b) only when the previous wave has a non-'.' token.
SignificantTrackCode(w, prev) ==
    /\ HasState(w)
    /\ \/ \E j, k \in 1..Len(w) : w[j] # "." /\ w[k] # "." /\ w[j] # w[k]
       \/ \E j \in 1..Len(w) : \E k \in 1..Len(prev) :
             IsFirstState(w, j) /\ IsLastState(prev, k) /\ prev[k] # w[j]

FilterAsCoded ==
    pc = "filtered" =>
        (verdict <=> \E s \in 1..Len(SrcSignals) :
                         SignificantTrackCode(SegWave(idx, s), SegWave(idx - 1, s)))

(***************************************************************************)
(* Properties of the emitters.                                             *)
(***************************************************************************)
VisitOver == pc = "ready" /\ node >= 1

\* The exceptions that reached the emitter's except clause during the visit of node n.
FatalAt(n) == {e \in raised : e.node = n /\ e.step # "adjust"}

\* Segment i (from 0) passes the LaTeX emitter's filter.
Shown(i) == i = 0 \/ is_meaningful_segment(heap, segments[i + 1], segments[i])

Figures(n) == SelectSeq(body, LAMBDA b : b.kind = "figure" /\ b.node = n)

\* C5: a LaTeX visit in which no step failed renders the first segment and exactly
\* the later segments that is_meaningful_segment accepts against their immediate
\* predecessor; a skipped segment has no render, no file and no figure; the
\* figures are in body in increasing segment order, one per rendered segment.
FigurePolicy ==
    (surface = "latex" /\ VisitOver /\ FatalAt(node) = {}) =>
        LET shown == {i \in 0..(Len(segments) - 1) : Shown(i)}
            figs == Figures(node)
        IN  /\ 0 \in shown
            /\ {r.idx : r \in {x \in rendered : x.node = node}} = shown
            /\ {w.idx : w \in {x \in writes : x.node = node}} = shown
            /\ Cardinality({x \in writes : x.node = node}) = 2 * Cardinality(shown)
            /\ {figs[k].idx : k \in 1..Len(figs)} = shown
            /\ \A k, l \in 1..Len(figs) : k < l => figs[k].idx < figs[l].idx
            /\ \A k \in 1..Len(body) : body[k].node = node => body[k].kind = "figure"

\* A segment rendered after a skipped one, which the filter would have rejected
\* against the first segment.
FigurePolicyWitness ==
    /\ surface = "latex"
    /\ VisitOver
    /\ FatalAt(node) = {}
    /\ Len(segments) >= 3
    /\ ~Shown(1)
    /\ [node |-> node, idx |-> 2] \in rendered
    /\ ~is_meaningful_segment(heap, segments[3], segments[1])

\* C6: fail-fast per diagram, in both emitters.  When render, the write of the
\* vector file or the raster conversion fails for segment j: an error is logged, an
\* error marker is in body, no later segment is rendered, written or converted,
\* segment j has no raster file, no image reference or figure is emitted for j
\* or a later segment, and the visit is over.
FailFast ==
    \A e \in raised : e.step # "adjust" =>
        /\ \E k \in 1..Len(log) :
               log[k] = [msg |-> "WaveDrom error", node |-> e.node, idx |-> e.idx]
        /\ \E k \in 1..Len(body) :
               body[k] = [kind |-> "error", node |-> e.node, idx |-> e.idx]
        /\ \A r \in rendered : r.node = e.node => r.idx <= e.idx
        /\ \A w \in writes : w.node = e.node => w.idx <= e.idx
        /\ Cardinality({w \in writes : w.node = e.node /\ w.idx = e.idx})
               = (IF e.step = "convert" THEN 1 ELSE 0)
        /\ \A k \in 1..Len(body) : body[k].node = e.node =>
               /\ body[k].kind # "inline"
               /\ body[k].kind = "figure" => body[k].idx < e.idx
        /\ e.node = node => pc = "ready"

\* A conversion that failed for the second of at least three segments, after the
\* figure of the first was emitted.
FailFastWitness ==
    /\ Len(segments) >= 3
    /\ [step |-> "convert", node |-> node, idx |-> 1] \in raised
    /\ Len(Figures(node)) = 1
    /\ pc = "ready"

\* The same in the HTML emitter, whose image references are held back to the end.
FailFastHtmlWitness ==
    /\ surface = "html"
    /\ Len(segments) = 2
    /\ [step |-> "render", node |-> node, idx |-> 1] \in raised
    /\ Len(segment_images) = 1
    /\ pc = "ready"

\* C9: a failure inside adjust_svg is logged by adjust_svg and nothing else: the
\* emitter logs no error and emits no error marker for it, the segment goes on to
\* the raster conversion, and a visit with no other failure emits the segment and
\* processes every segment after it.
AdjustNonFatal ==
    \A e \in raised : e.step = "adjust" =>
        LET fatal == \E f \in raised : f.step # "adjust" /\ f.node = e.node /\ f.idx = e.idx
        IN  /\ \E k \in 1..Len(log) :
                   log[k] = [msg |-> "Error adjusting SVG", node |-> e.node, idx |-> e.idx]
            /\ ~fatal =>
                   /\ \A k \in 1..Len(log) :
                          log[k] # [msg |-> "WaveDrom error", node |-> e.node, idx |-> e.idx]
                   /\ \A k \in 1..Len(body) :
                          body[k] # [kind |-> "error", node |-> e.node, idx |-> e.idx]
            /\ (e.node = node /\ e.idx = idx /\ pc # "ready") => pc \in {"convert", "emit"}
            /\ (e.node = node /\ (idx > e.idx \/ pc \in {"emit", "ready"})) =>
                   \/ Cardinality({w \in writes : w.node = e.node /\ w.idx = e.idx}) = 2
                   \/ [step |-> "convert", node |-> e.node, idx |-> e.idx] \in raised
            /\ (e.node = node /\ pc = "ready" /\ FatalAt(node) = {}) =>
                   /\ IF surface = "latex"
                      THEN \E k \in 1..Len(body) :
                               /\ body[k].kind = "figure"
                               /\ body[k].node = e.node
                               /\ body[k].idx = e.idx
                      ELSE \E k \in 1..Len(body) :
                               /\ body[k].kind = "inline"
                               /\ body[k].node = e.node
                               /\ \E j \in 1..Len(body[k].imgs) : body[k].imgs[j].idx = e.idx
                   /\ \A i \in (e.idx + 1)..(Len(segments) - 1) :
                          (surface = "html" \/ Shown(i)) =>
                              [node |-> node, idx |-> i] \in rendered

\* adjust_svg failed for the first segment of a visit that went on to render a
\* later one and ended with no other failure.
AdjustNonFatalWitness ==
    /\ VisitOver
    /\ FatalAt(node) = {}
    /\ [step |-> "adjust", node |-> node, idx |-> 0] \in raised
    /\ \E i \in 1..(Len(segments) - 1) : [node |-> node, idx |-> i] \in rendered

\* C7: no two writes go to the same path unless they are the same segment of the
\* same diagram: the segments of a diagram write distinct files, and two diagrams
\* of different names never write the same file.
NoCollision ==
    \A w1, w2 \in writes :
        (w1.node = w2.node \/ doc[w1.node].name # doc[w2.node].name) =>
            (w1.path = w2.path => w1.node = w2.node /\ w1.idx = w2.idx)

\* The part of C7 that holds: the segments of one diagram write distinct files.
NoCollisionWithinDiagram ==
    \A w1, w2 \in writes :
        (w1.node = w2.node /\ w1.path = w2.path) => w1.idx = w2.idx

====
